---- MODULE Spec2Model ----
(***************************************************************************)
(* pulseWM: a minimal Wayland compositor built on smithay.                 *)
(*                                                                         *)
(* The model follows src/main.rs (the event loop and its three event       *)
(* sources: listening socket, client dispatch, frame timer) and            *)
(* src/state.rs (the protocol handlers of State).  A callback of the       *)
(* event loop runs to completion before the next one starts               *)
(* (event_loop.run, main.rs:215), so every client handler is one action    *)
(* and is enabled only while no timer callback is in progress.  The timer  *)
(* callback is split at its statements (pc) so that the order of its       *)
(* steps and the step at which an unwrap()/expect() panics are visible.    *)
(***************************************************************************)
EXTENDS Integers, Sequences, FiniteSets, TLC

\* ---- bounds of the model -------------------------------------------------
MaxClients == 2
MaxWindows == 2
MaxKeys == 2

\* ---- program constants ---------------------------------------------------
\* keysyms::KEY_t and keysyms::KEY_T (xkbcommon)
KEY_t == 116
KEY_T == 84
\* SERIAL_COUNTER hands out its first serial as 1.
FirstSerial == 1
\* Duration::from_millis(16)
FramePeriodMs == 16

ClientIds == 1..MaxClients
WindowIds == 1..MaxWindows
NoFocus == 0
Keysyms == {KEY_t, KEY_T}
KeyStates == {"Pressed", "Released"}
KeyEvents == [sym : Keysyms, state : KeyStates]
NoKey == [sym |-> 0, state |-> "none"]
\* the location map_element is given, (0, 0) (state.rs:140), and no location
Origin == <<0, 0>>
NoLoc == <<>>

VARIABLES
    clients,      \* ids of the clients the display currently holds
    nextClient,   \* id the next accepted connection gets
    nextWin,      \* id the next toplevel gets
    owner,        \* owner[w]: client that created toplevel w (0: not created)
    alive,        \* alive[w]: the toplevel's wl_surface is alive
    icf,          \* icf[w]: XdgToplevelSurfaceData.initial_configure_sent
    space,        \* state.space: the mapped windows, in stacking order
    loc,          \* loc[w]: location of w in the Space (NoLoc: not mapped)
    focus,        \* keyboard focus of the seat (NoFocus or a window)
    serial,       \* SERIAL_COUNTER: the next serial it hands out
    lastKey,      \* the keyboard event the input closure handled last in this drain
    pc,           \* position of the timer callback ("idle": not running)
    panic,        \* "none", or the unwrap()/expect() that ended the process
    timerMs,      \* delays (ms) the timer source is armed with; {}: not armed
    \* ---- observation (history) variables ----
    committed,    \* committed[w]: a commit of toplevel w has been handled
    configures,   \* configures[w]: configure events sent to toplevel w
    forwarded,    \* serials of the key events the filter forwarded, in order
    delivered,    \* key events sent to a client: [win, serial]
    spawns,       \* Command::spawn calls made
    spawnFailed,  \* a Command::spawn call returned Err
    acceptFailed, \* an insert_client call returned Err
    composed,     \* windows handed to render_output in the running tick
    frames        \* frames[w]: send_frame calls on w in the running tick

vars == <<clients, nextClient, nextWin, owner, alive, icf, space, focus,
          serial, lastKey, pc, panic, timerMs, committed, configures, forwarded,
          delivered, spawns, spawnFailed, composed, frames, loc, acceptFailed>>

winVars == <<nextWin, owner, alive, icf, space, loc, committed, configures>>
cliVars == <<clients, nextClient, acceptFailed>>
keyVars == <<serial, lastKey, forwarded, delivered, spawns, spawnFailed>>
tickObs == <<composed, frames>>

\* ---- helpers -------------------------------------------------------------
Range(s) == {s[i] : i \in 1..Len(s)}

\* variant: the bitwise AND in place of the OR
RECURSIVE BitAnd(_, _)
BitAnd(a, b) ==
    IF a = 0 \/ b = 0 THEN 0
    ELSE (IF a % 2 = 1 /\ b % 2 = 1 THEN 1 ELSE 0)
         + 2 * BitAnd(a \div 2, b \div 2)

\* the bitwise OR of two naturals (the `|` of main.rs:163)
RECURSIVE BitOr(_, _)
BitOr(a, b) ==
    IF a = 0 THEN b
    ELSE IF b = 0 THEN a
    ELSE (IF a % 2 = 1 \/ b % 2 = 1 THEN 1 ELSE 0)
         + 2 * BitOr(a \div 2, b \div 2)

\* sequence s without the elements that fail keep
RECURSIVE Retain(_, _)
Retain(s, keep) ==
    IF s = <<>> THEN <<>>
    ELSE IF keep[Head(s)] THEN <<Head(s)>> \o Retain(Tail(s), keep)
    ELSE Retain(Tail(s), keep)

Running == panic = "none"
Idle == Running /\ pc = "idle"

Init ==
    /\ clients = {}
    /\ nextClient = 1
    /\ nextWin = 1
    /\ owner = [w \in WindowIds |-> 0]
    /\ alive = [w \in WindowIds |-> FALSE]
    /\ icf = [w \in WindowIds |-> FALSE]
    /\ space = <<>>
    /\ loc = [w \in WindowIds |-> NoLoc]
    /\ focus = NoFocus
    /\ serial = FirstSerial
    /\ lastKey = NoKey
    /\ pc = "idle"
    /\ panic = "none"
    /\ timerMs = {0}
    /\ committed = [w \in WindowIds |-> FALSE]
    /\ configures = [w \in WindowIds |-> 0]
    /\ forwarded = <<>>
    /\ delivered = {}
    /\ spawns = 0
    /\ spawnFailed = FALSE
    /\ acceptFailed = FALSE
    /\ composed = <<>>
    /\ frames = [w \in WindowIds |-> 0]

\* ---- listening socket source (main.rs:54-62) -----------------------------
\* insert_client(..).unwrap(): a failed insertion panics.
Accept(ok) ==
    /\ Idle
    /\ nextClient <= MaxClients
    /\ IF ok
       THEN /\ clients' = clients \cup {nextClient}
            /\ nextClient' = nextClient + 1
            /\ UNCHANGED <<panic, acceptFailed>>
       ELSE /\ panic' = "insert_client"
            /\ acceptFailed' = TRUE
            /\ UNCHANGED <<clients, nextClient>>
    /\ UNCHANGED <<winVars, focus, keyVars, pc, timerMs, tickObs>>

\* ---- client dispatch source (main.rs:64-77), handlers of state.rs --------
\* variant: the handler also runs while the timer callback is in progress
NewToplevelAnytime(c) ==
    /\ Running
    /\ c \in clients
    /\ nextWin <= MaxWindows
    /\ owner' = [owner EXCEPT ![nextWin] = c]
    /\ alive' = [alive EXCEPT ![nextWin] = TRUE]
    /\ space' = Append(space, nextWin)
    /\ loc' = [loc EXCEPT ![nextWin] = Origin]
    /\ nextWin' = nextWin + 1
    /\ UNCHANGED <<cliVars, icf, committed, configures, focus, keyVars, pc,
                   panic, timerMs, tickObs>>

\* variant: the newest toplevel is given the keyboard focus
NewToplevelFocus(c) ==
    /\ Idle
    /\ c \in clients
    /\ nextWin <= MaxWindows
    /\ owner' = [owner EXCEPT ![nextWin] = c]
    /\ alive' = [alive EXCEPT ![nextWin] = TRUE]
    /\ space' = Append(space, nextWin)
    /\ loc' = [loc EXCEPT ![nextWin] = Origin]
    /\ nextWin' = nextWin + 1
    /\ focus' = nextWin
    /\ UNCHANGED <<cliVars, icf, committed, configures, keyVars, pc,
                   panic, timerMs, tickObs>>

\* variant: the new toplevel is placed after the windows already mapped
NewToplevelCascade(c) ==
    /\ Idle
    /\ c \in clients
    /\ nextWin <= MaxWindows
    /\ owner' = [owner EXCEPT ![nextWin] = c]
    /\ alive' = [alive EXCEPT ![nextWin] = TRUE]
    /\ space' = Append(space, nextWin)
    /\ loc' = [loc EXCEPT ![nextWin] = <<Len(space), Len(space)>>]
    /\ nextWin' = nextWin + 1
    /\ UNCHANGED <<cliVars, icf, committed, configures, focus, keyVars, pc,
                   panic, timerMs, tickObs>>

\* variant: the toplevel is created with its initial configure marked sent
NewToplevelConfigured(c) ==
    /\ Idle
    /\ c \in clients
    /\ nextWin <= MaxWindows
    /\ owner' = [owner EXCEPT ![nextWin] = c]
    /\ alive' = [alive EXCEPT ![nextWin] = TRUE]
    /\ icf' = [icf EXCEPT ![nextWin] = TRUE]
    /\ space' = Append(space, nextWin)
    /\ loc' = [loc EXCEPT ![nextWin] = Origin]
    /\ nextWin' = nextWin + 1
    /\ UNCHANGED <<cliVars, committed, configures, focus, keyVars, pc,
                   panic, timerMs, tickObs>>

\* XdgShellHandler::new_toplevel (state.rs:138-141)
NewToplevel(c) ==
    /\ Idle
    /\ c \in clients
    /\ nextWin <= MaxWindows
    /\ owner' = [owner EXCEPT ![nextWin] = c]
    /\ alive' = [alive EXCEPT ![nextWin] = TRUE]
    /\ space' = Append(space, nextWin)
    /\ loc' = [loc EXCEPT ![nextWin] = Origin]
    /\ nextWin' = nextWin + 1
    /\ UNCHANGED <<cliVars, icf, committed, configures, focus, keyVars, pc,
                   panic, timerMs, tickObs>>

\* variant: the configure is sent but the flag is left as it was
SendPendingConfigureNoFlag(w) ==
    /\ icf' = icf
    /\ configures' = [configures EXCEPT ![w] = @ + 1]

\* ToplevelSurface::send_pending_configure as called at state.rs:88: the
\* initial configure is pending, so one configure event is sent and
\* initial_configure_sent becomes true.
SendPendingConfigure(w) ==
    /\ icf' = [icf EXCEPT ![w] = TRUE]
    /\ configures' = [configures EXCEPT ![w] = @ + 1]

\* variant: the test of initial_configure_sent is dropped
NeedsInitialConfigureAlways(w) ==
    w \in Range(space)

\* the window is found in the Space (state.rs:69-74) and its
\* initial_configure_sent is false (state.rs:77-87)
NeedsInitialConfigure(w) ==
    w \in Range(space) /\ ~icf[w]

\* CompositorHandler::commit (state.rs:66-91) for the surface of toplevel w
Commit(w) ==
    /\ Idle
    /\ w \in WindowIds /\ alive[w] /\ owner[w] \in clients
    /\ committed' = [committed EXCEPT ![w] = TRUE]
    /\ IF NeedsInitialConfigure(w)
       THEN SendPendingConfigure(w)
       ELSE UNCHANGED <<icf, configures>>
    /\ UNCHANGED <<cliVars, nextWin, owner, alive, space, loc, focus, keyVars,
                   pc, panic, timerMs, tickObs>>

\* XdgShellHandler::toplevel_destroyed (state.rs:143): the handler body is
\* empty; the surface is dead afterwards, the Space is not touched.
ToplevelDestroyed(w) ==
    /\ Idle
    /\ w \in WindowIds /\ alive[w] /\ owner[w] \in clients
    /\ alive' = [alive EXCEPT ![w] = FALSE]
    /\ UNCHANGED <<cliVars, nextWin, owner, icf, space, loc, committed,
                   configures, focus, keyVars, pc, panic, timerMs, tickObs>>

\* variant: the teardown of one client destroys every client's surfaces
ClientGoneAll(c) ==
    /\ Idle
    /\ c \in clients
    /\ clients' = clients \ {c}
    /\ alive' = [w \in WindowIds |-> FALSE]
    /\ UNCHANGED <<nextClient, acceptFailed, nextWin, owner, icf, space, loc,
                   committed, configures, focus, keyVars, pc, panic, timerMs,
                   tickObs>>

\* dispatch_clients (main.rs:73) drops a client that disconnected or that
\* violated the protocol: the client leaves the display and its objects are
\* destroyed (toplevel_destroyed runs for each of its toplevels).
ClientGone(c) ==
    /\ Idle
    /\ c \in clients
    /\ clients' = clients \ {c}
    /\ alive' = [w \in WindowIds |-> alive[w] /\ owner[w] # c]
    /\ UNCHANGED <<nextClient, acceptFailed, nextWin, owner, icf, space, loc,
                   committed, configures, focus, keyVars, pc, panic, timerMs,
                   tickObs>>

\* ---- timer source (main.rs:142-213) --------------------------------------
\* the armed timer fires and the callback starts (main.rs:144-149); the
\* source is armed again by what the callback returns
TickStart ==
    /\ Idle
    /\ timerMs # {}
    /\ pc' = "input"
    /\ timerMs' = {}
    /\ UNCHANGED <<cliVars, winVars, focus, keyVars, panic, tickObs>>

\* variant: the filter compares with KEY_T alone
InterceptsUpper(ev) ==
    ev.state = "Pressed" /\ ev.sym = KEY_T

\* the filter closure of keyboard.input (main.rs:161-169)
Intercepts(ev) ==
    ev.state = "Pressed" /\ ev.sym = BitOr(KEY_t, KEY_T)

\* variant: a keyboard event takes two values of the counter
NextSerialByTwo(s) == s + 2

\* variant: the counter is read without being advanced
NextSerialStuck(s) == s

\* SERIAL_COUNTER.next_serial() (main.rs:152): the counter after the call
NextSerial(s) == s + 1

\* dispatch_new_events yields keyboard event ev to the closure
\* (main.rs:150-177); Command::spawn succeeds or not
DispatchKey(ev, spawnOk) ==
    /\ Running /\ pc = "input"
    /\ serial - FirstSerial < MaxKeys
    /\ LET s == serial
       IN /\ serial' = NextSerial(serial)
          /\ lastKey' = ev
          /\ IF Intercepts(ev)
             THEN /\ spawns' = spawns + 1
                  /\ spawnFailed' = (spawnFailed \/ ~spawnOk)
                  /\ panic' = IF spawnOk THEN panic ELSE "spawn"
                  /\ UNCHANGED <<forwarded, delivered>>
             ELSE /\ forwarded' = Append(forwarded, s)
                  /\ delivered' = IF focus # NoFocus
                                  THEN delivered \cup {[win |-> focus, serial |-> s]}
                                  ELSE delivered
                  /\ UNCHANGED <<spawns, spawnFailed, panic>>
    /\ UNCHANGED <<cliVars, winVars, focus, pc, timerMs, tickObs>>

\* dispatch_new_events(..).unwrap() returns (main.rs:180)
DrainDone(ok) ==
    /\ Running /\ pc = "input"
    /\ IF ok THEN pc' = "bind" /\ panic' = panic
             ELSE pc' = pc /\ panic' = "dispatch_new_events"
    /\ lastKey' = NoKey
    /\ UNCHANGED <<cliVars, winVars, focus, serial, forwarded, delivered,
                   spawns, spawnFailed, timerMs, tickObs>>

\* backend.bind().unwrap() (main.rs:182)
Bind(ok) ==
    /\ Running /\ pc = "bind"
    /\ IF ok THEN pc' = "render" /\ panic' = panic
             ELSE pc' = pc /\ panic' = "bind"
    /\ UNCHANGED <<cliVars, winVars, focus, keyVars, timerMs, tickObs>>

\* render_output over [&state.space] (main.rs:184-194)
Render(ok) ==
    /\ Running /\ pc = "render"
    /\ IF ok THEN /\ pc' = "submit"
                  /\ composed' = space
                  /\ panic' = panic
             ELSE /\ pc' = pc
                  /\ composed' = composed
                  /\ panic' = "render_output"
    /\ UNCHANGED <<cliVars, winVars, focus, keyVars, timerMs, frames>>

\* variant: the Space is refreshed right after the submit, before the frame
\* callbacks
SubmitThenRefresh(ok) ==
    /\ Running /\ pc = "submit"
    /\ IF ok THEN pc' = "refresh" /\ panic' = panic
             ELSE pc' = pc /\ panic' = "submit"
    /\ UNCHANGED <<cliVars, winVars, focus, keyVars, timerMs, tickObs>>

\* backend.submit(None).unwrap() (main.rs:196)
Submit(ok) ==
    /\ Running /\ pc = "submit"
    /\ IF ok THEN pc' = "frames" /\ panic' = panic
             ELSE pc' = pc /\ panic' = "submit"
    /\ UNCHANGED <<cliVars, winVars, focus, keyVars, timerMs, tickObs>>

\* windows send_frame is called on: space.elements() (main.rs:198)
FrameTargets == space

\* state.space.elements().for_each(send_frame) (main.rs:198-205)
SendFrames ==
    /\ Running /\ pc = "frames"
    /\ frames' = [w \in WindowIds |->
                    frames[w] + Cardinality({i \in 1..Len(FrameTargets) :
                                               FrameTargets[i] = w})]
    /\ pc' = "refresh"
    /\ UNCHANGED <<cliVars, winVars, focus, keyVars, panic, timerMs, composed>>

\* state.space.refresh() (main.rs:207): drops the elements that are dead
Refresh ==
    /\ Running /\ pc = "refresh"
    /\ space' = Retain(space, alive)
    /\ loc' = [w \in WindowIds |-> IF alive[w] THEN loc[w] ELSE NoLoc]
    /\ pc' = "flush"
    /\ UNCHANGED <<cliVars, nextWin, owner, alive, icf, committed, configures,
                   focus, keyVars, panic, timerMs, tickObs>>

\* variant: the callback returns without arming the timer again
FlushDropTimer(ok) ==
    /\ Running /\ pc = "flush"
    /\ IF ok THEN /\ pc' = "idle"
                  /\ timerMs' = timerMs
                  /\ panic' = panic
                  /\ composed' = <<>>
                  /\ frames' = [w \in WindowIds |-> 0]
             ELSE /\ pc' = pc
                  /\ timerMs' = timerMs
                  /\ panic' = "flush_clients"
                  /\ UNCHANGED tickObs
    /\ UNCHANGED <<cliVars, winVars, focus, keyVars>>

\* display.flush_clients().unwrap(); TimeoutAction::ToDuration(16 ms)
\* (main.rs:209-211)
Flush(ok) ==
    /\ Running /\ pc = "flush"
    /\ IF ok THEN /\ pc' = "idle"
                  /\ timerMs' = timerMs \cup {FramePeriodMs}
                  /\ panic' = panic
                  /\ composed' = <<>>
                  /\ frames' = [w \in WindowIds |-> 0]
             ELSE /\ pc' = pc
                  /\ timerMs' = timerMs
                  /\ panic' = "flush_clients"
                  /\ UNCHANGED tickObs
    /\ UNCHANGED <<cliVars, winVars, focus, keyVars>>

Next ==
    \/ \E ok \in BOOLEAN : Accept(ok)
    \/ \E c \in ClientIds : NewToplevel(c)
    \/ \E w \in WindowIds : Commit(w)
    \/ \E w \in WindowIds : ToplevelDestroyed(w)
    \/ \E c \in ClientIds : ClientGone(c)
    \/ TickStart
    \/ \E ev \in KeyEvents, ok \in BOOLEAN : DispatchKey(ev, ok)
    \/ \E ok \in BOOLEAN : DrainDone(ok)
    \/ \E ok \in BOOLEAN : Bind(ok)
    \/ \E ok \in BOOLEAN : Render(ok)
    \/ \E ok \in BOOLEAN : Submit(ok)
    \/ SendFrames
    \/ Refresh
    \/ \E ok \in BOOLEAN : Flush(ok)

Spec == Init /\ [][Next]_vars

\* event_loop.run (main.rs:215) keeps dispatching: an armed timer fires, and
\* the statements of the running callback are executed one after the other.
TickFairness ==
    /\ WF_vars(TickStart)
    /\ WF_vars(\E ok \in BOOLEAN : DrainDone(ok))
    /\ WF_vars(\E ok \in BOOLEAN : Bind(ok))
    /\ WF_vars(\E ok \in BOOLEAN : Render(ok))
    /\ WF_vars(\E ok \in BOOLEAN : Submit(ok))
    /\ WF_vars(SendFrames)
    /\ WF_vars(Refresh)
    /\ WF_vars(\E ok \in BOOLEAN : Flush(ok))

FairSpec == Spec /\ TickFairness

\* ==== properties ==========================================================
InSpace(w) == w \in Range(space)
TickInProgress == pc # "idle"

\* C1: initial_configure_sent of a window changes from false to true only in
\* the first commit of that window, which sends one configure request; once
\* the flag is true it stays true, and no step (in particular no later
\* commit) sends the window another configure request.
C1_ConfigureOnce ==
    [][\A w \in WindowIds :
         /\ (~icf[w] /\ icf'[w]) =>
               /\ ~committed[w] /\ committed'[w]
               /\ configures'[w] = configures[w] + 1
         /\ icf[w] => (icf'[w] /\ configures'[w] = configures[w])
         /\ configures'[w] # configures[w] => (~icf[w] /\ icf'[w])]_vars

\* a window whose first commit has sent the configure and that can commit again
C1_Witness ==
    \E w \in WindowIds :
        /\ committed[w] /\ icf[w] /\ configures[w] = 1
        /\ alive[w] /\ owner[w] \in clients /\ Idle

C3_FrameCallbackExactness ==
    pc = "refresh" =>
        /\ \A w \in WindowIds : InSpace(w) => frames[w] = 1
        /\ \A w \in WindowIds : (~InSpace(w) \/ ~alive[w]) => frames[w] = 0

\* C4: during a tick the Space holds no window that was destroyed (by its
\* client or with its client) before the tick started, so no destroyed
\* window is composed or sent a frame callback in that tick.
C4_DestroyedGoneBeforeNextTick ==
    TickInProgress =>
        \A w \in WindowIds :
            (owner[w] # 0 /\ ~alive[w]) =>
                /\ ~InSpace(w)
                /\ w \notin Range(composed)
                /\ frames[w] = 0

\* C5: the serials of the forwarded key events are strictly increasing (so no
\* value is used twice) and every one of them was handed out by the one
\* serial counter.
C5_SerialsStrictlyIncrease ==
    /\ \A i, j \in 1..Len(forwarded) : i < j => forwarded[i] < forwarded[j]
    /\ \A i \in 1..Len(forwarded) :
           forwarded[i] >= FirstSerial /\ forwarded[i] < serial

\* two key events have been forwarded
C5_Witness ==
    Len(forwarded) >= 2

\* C6: a press of the bound key symbol (lowercase t) is consumed: the step
\* that handles it makes exactly one spawn request, forwards nothing and
\* delivers no key event to any client.
C6_BoundKeyIsConsumed ==
    [][(pc = "input" /\ serial' # serial
          /\ lastKey' = [sym |-> KEY_t, state |-> "Pressed"]) =>
            /\ spawns' = spawns + 1
            /\ forwarded' = forwarded
            /\ delivered' = delivered]_vars

\* the bound key was pressed after a toplevel was created, and the spawn
\* succeeded
C6_Witness ==
    /\ lastKey = [sym |-> KEY_t, state |-> "Pressed"]
    /\ spawns >= 1 /\ Running
    /\ \E w \in WindowIds : InSpace(w) /\ alive[w]

\* C9: the teardown of a client leaves the server running and does not touch
\* the Space or the surfaces of any other client; a window leaves the Space
\* only when it is dead; and every tick sends one frame callback to every
\* live window in the Space.
C9_ClientIsolation ==
    [][/\ \A c \in clients : c \notin clients' =>
             /\ panic' = "none" /\ pc' = pc /\ space' = space
             /\ \A w \in WindowIds : owner[w] # c => alive'[w] = alive[w]
       /\ \A w \in WindowIds :
             (InSpace(w) /\ alive'[w]) => w \in Range(space')
       /\ (pc = "frames" /\ pc' = "refresh") =>
             \A w \in WindowIds : (InSpace(w) /\ alive[w]) => frames'[w] = 1]_vars

\* client A is gone with its window still in the Space, and the window of a
\* connected client B has just received its frame callback
C9_Witness ==
    /\ pc = "refresh" /\ Running
    /\ \E a, b \in WindowIds :
          /\ owner[a] # 0 /\ owner[a] \notin clients /\ InSpace(a)
          /\ owner[b] \in clients /\ alive[b] /\ InSpace(b) /\ frames[b] = 1

\* C10: a failed launch of the external program leaves the server running.
C10_SpawnFailureNotFatal ==
    spawnFailed => Running

\* C11: a failed insertion of a new client (per-client state not allocated)
\* rejects that connection only and leaves the server running.
C11_AcceptFailureNotFatal ==
    acceptFailed => Running

\* the steps of a tick, in the order of the timer callback
TickSteps ==
    {<<"idle", "input">>, <<"input", "bind">>, <<"bind", "render">>,
     <<"render", "submit">>, <<"submit", "frames">>, <<"frames", "refresh">>,
     <<"refresh", "flush">>, <<"flush", "idle">>}

\* C12: a tick goes through its steps in the order input drain (with the
\* spawn of an intercepted key), acquisition of the render target,
\* composition, submit, frame callbacks, refresh of the Space; each effect
\* happens in its own step and no step is skipped or reordered.
C12_TickStepOrder ==
    [][/\ pc' # pc => <<pc, pc'>> \in TickSteps
       /\ (serial' # serial \/ spawns' # spawns \/ forwarded' # forwarded) =>
             (pc = "input" /\ pc' = "input")
       /\ (composed' # composed /\ composed' # <<>>) =>
             (pc = "render" /\ pc' = "submit")
       /\ (\E w \in WindowIds : frames'[w] > frames[w]) =>
             (pc = "frames" /\ pc' = "refresh")
       /\ (pc # "idle" /\ space' # space) =>
             (pc = "refresh" /\ pc' = "flush")]_vars

\* a tick that spawned, composed, sent frame callbacks and whose refresh
\* dropped a dead window
C12_Witness ==
    /\ pc = "flush" /\ Running
    /\ spawns >= 1
    /\ Len(composed) >= 1 /\ Len(space) < Len(composed)
    /\ \A i \in 1..Len(composed) : frames[composed[i]] = 1

\* the state of window w in the state machine of a window
WinState(w) ==
    IF owner[w] = 0 THEN "Absent"
    ELSE IF ~alive[w] THEN "Destroyed"
    ELSE IF icf[w] THEN "ConfigurePending"
    ELSE "Unconfigured"

WinEdges ==
    {<<"Absent", "Unconfigured">>, <<"Unconfigured", "ConfigurePending">>,
     <<"Unconfigured", "Destroyed">>, <<"ConfigurePending", "Destroyed">>}

C14_DestroyRemovesFromSpace ==
    \A w \in WindowIds :
        (owner[w] # 0 /\ ~alive[w]) => (~InSpace(w) /\ loc[w] = NoLoc)

\* C15: the creation of a toplevel appends exactly that one window to the
\* Space, at location (0, 0), with initial_configure_sent = false; it sends no
\* configure request and leaves location, configure state and liveness of
\* every other window as they were.
C15_CreateToplevelFrame ==
    [][nextWin' # nextWin =>
         /\ nextWin \notin Range(space)
         /\ space' = Append(space, nextWin)
         /\ loc'[nextWin] = <<0, 0>>
         /\ icf'[nextWin] = FALSE
         /\ configures' = configures
         /\ \A v \in WindowIds \ {nextWin} :
               /\ loc'[v] = loc[v]
               /\ icf'[v] = icf[v]
               /\ alive'[v] = alive[v]]_vars

\* a second toplevel was created next to a window that is already configured
C15_Witness ==
    /\ Len(space) = 2 /\ Idle
    /\ icf[space[1]] /\ ~icf[space[2]] /\ ~committed[space[2]]
    /\ loc[space[1]] = <<0, 0>> /\ loc[space[2]] = <<0, 0>>

\* C16: a tick that runs to completion arms the timer with exactly one delay,
\* 16 ms; the timer is not armed while a tick is in progress and a tick
\* starts only when none is in progress; and if no step ever fails, ticks
\* start and complete infinitely often.
C16_TimerReschedules ==
    /\ [][/\ (pc = "flush" /\ pc' = "idle") => timerMs' = {FramePeriodMs}
          /\ pc' # "idle" => timerMs' = {}
          /\ (pc' = "input" /\ pc # "input") => pc = "idle"]_vars
    /\ ([]Running) => ([]<>(pc = "input") /\ []<>(pc = "idle"))

\* a later tick has started: the timer armed by a completed tick, which had
\* forwarded a key event, has fired
C16_Witness ==
    /\ pc = "input" /\ Running /\ timerMs = {}
    /\ lastKey = NoKey /\ Len(forwarded) >= 1

\* C17: the handlers of the socket source and of the client requests run only
\* while no tick is in progress, and the windows a tick sends a frame
\* callback to are exactly the windows it composed.
C17_NoInterleaving ==
    [][/\ (clients' # clients \/ nextClient' # nextClient
             \/ acceptFailed' # acceptFailed \/ nextWin' # nextWin
             \/ owner' # owner \/ alive' # alive \/ committed' # committed
             \/ icf' # icf \/ configures' # configures) =>
             (pc = "idle" /\ pc' = "idle")
       /\ (pc = "frames" /\ pc' = "refresh") =>
             {w \in WindowIds : frames'[w] >= 1} = Range(composed')]_vars

\* a tick has composed two windows and sent both a frame callback while
\* a connected client could send requests
C17_Witness ==
    /\ pc = "refresh" /\ Running
    /\ Len(composed) = 2
    /\ \A w \in Range(composed) : frames[w] = 1
    /\ nextClient <= MaxClients
    /\ \E w \in WindowIds : alive[w] /\ owner[w] \in clients

\* C18: the keyboard focus of the seat is none in every reachable state, and
\* no key event is ever delivered to a client.
C18_FocusNeverSet ==
    focus = NoFocus /\ delivered = {}

\* an unbound key was forwarded while a live toplevel is mapped
C18_Witness ==
    /\ pc = "input" /\ Running
    /\ lastKey = [sym |-> KEY_T, state |-> "Released"]
    /\ Len(forwarded) >= 1
    /\ \E w \in WindowIds : alive[w] /\ InSpace(w) /\ committed[w]

\* C19: KEY_t | KEY_T is KEY_t, and a key event is intercepted (one spawn,
\* nothing forwarded) exactly when it is a press of lowercase t; every other
\* event, the release of t and the press of T among them, is forwarded with
\* its serial and spawns nothing.
C19_InterceptIffLowerTPressed ==
    [][/\ BitOr(KEY_t, KEY_T) = KEY_t
       /\ serial' # serial =>
             IF lastKey' = [sym |-> KEY_t, state |-> "Pressed"]
             THEN spawns' = spawns + 1 /\ forwarded' = forwarded
             ELSE spawns' = spawns /\ forwarded' = Append(forwarded, serial)]_vars

\* a press of T was forwarded after a press of t was intercepted
C19_Witness ==
    /\ pc = "input" /\ Running
    /\ lastKey = [sym |-> KEY_T, state |-> "Pressed"]
    /\ spawns = 1
    /\ forwarded = <<FirstSerial + 1>>

\* C20: every keyboard event handled in a tick advances the serial counter by
\* exactly one, intercepted or forwarded, and the value a forwarded event
\* carries is the one taken before the filter ran; the counter moves only
\* with a keyboard event.
C20_OneSerialPerKeyEvent ==
    [][/\ (spawns' # spawns \/ forwarded' # forwarded) =>
             /\ serial' = serial + 1
             /\ Len(forwarded') + spawns' = Len(forwarded) + spawns + 1
             /\ forwarded' # forwarded => forwarded' = Append(forwarded, serial)
       /\ serial' # serial =>
             (pc = "input" /\ (spawns' # spawns \/ forwarded' # forwarded))]_vars

\* a drain handled one intercepted and one forwarded event: the counter
\* advanced by two, one event was forwarded
C20_Witness ==
    /\ pc = "bind" /\ Running
    /\ serial = FirstSerial + 2
    /\ spawns = 1 /\ Len(forwarded) = 1

TypeOK ==
    /\ clients \subseteq ClientIds
    /\ nextWin \in 1..(MaxWindows + 1)
    /\ Range(space) \subseteq WindowIds
    /\ pc \in {"idle", "input", "bind", "render", "submit", "frames",
               "refresh", "flush"}
====
